---- MODULE Spec2Model ----
(***************************************************************************)
(* mokutil: the MOK signature-list codec (build_mok_list and the record    *)
(* loop of issue_mok_request), the duplicate checks (is_duplicate,         *)
(* is_valid_request, test_key) and the password-authenticated request      *)
(* protocol (get_password, generate_auth, verify_old_req, update_request,  *)
(* issue_mok_request, revoke_request, reset_moks) of src/src/mokutil.c.    *)
(*                                                                         *)
(* Buffers are sequences of bytes (0..255); an offset o of the C code is   *)
(* element o + 1 of the sequence.  The EFI variable store is a function    *)
(* from <<name, vendor guid>> to the variable's bytes; a variable that     *)
(* does not exist is not in the function's domain.                         *)
(***************************************************************************)
EXTENDS Integers, Sequences, FiniteSets, TLC

VARIABLES
    store,      \* the EFI variable store
    garbage,    \* the byte a read past the end of a buffer returns
    last,       \* what the running process did (command, inputs, return value, events)
    prev,       \* the file the previous process imported alone and committed, if any
    n,          \* the number of processes run so far
    q           \* the last pure query and its result

vars == <<store, garbage, last, prev, n, q>>

(***************************************************************************)
(* Bounds of the model.                                                    *)
(***************************************************************************)
MaxFiles == 2          \* files named by one --import / --delete
MaxInvocations == 2    \* processes run one after the other on one store

(***************************************************************************)
(* Fixed-width integers and the layout of the EFI structures.              *)
(***************************************************************************)
\* A uint32_t v is held as v when v < 2^31 and as v - 2^32 otherwise (the
\* model checker's integers are 32 bits wide): equality, and subtraction modulo
\* 2^32, are then those of the integers.
U32Sub(a, b) == a - b

\* the address off + u for a uint32_t u; -1 stands for every address that is
\* not one of the buffer's
OffAdd(off, u) == IF off < 0 \/ u < 0 THEN -1 ELSE off + u

\* a >= b for a size_t a below 2^31 and a uint32_t b
GeU32(a, b) == b >= 0 /\ a >= b

SizeofU32 == 4

SizeofGuid == 16

\* sizeof (EFI_SIGNATURE_LIST): SignatureType, SignatureListSize,
\* SignatureHeaderSize, SignatureSize
SizeofSigList == SizeofGuid + SizeofU32 + SizeofU32 + SizeofU32

\* sizeof (EFI_SIGNATURE_DATA): SignatureOwner, SignatureData[1]
SizeofSigData == SizeofGuid + 1

OffSignatureListSize == SizeofGuid
OffSignatureHeaderSize == SizeofGuid + SizeofU32
OffSignatureSize == SizeofGuid + SizeofU32 + SizeofU32

\* the four bytes of a uint32_t, little-endian
Le32(v) ==
    << v % 256, (v \div 256) % 256, (v \div 65536) % 256, (v \div 16777216) % 256 >>

Le16(v) == << v % 256, (v \div 256) % 256 >>

\* EFI_GUID (a, b, c, d0..d7) of efi.h: a, b, c little-endian, d as given;
\* a is given as its high and low 16 bits
EFI_GUID(a_hi, a_lo, b, c, d) ==
    Le16(a_lo) \o Le16(a_hi) \o Le16(b) \o Le16(c) \o d

SHIM_LOCK_GUID ==
    EFI_GUID(\h605d, \hab50, \he046, \h4300,
             << \hab, \hb6, \h3d, \hd8, \h10, \hdd, \h8b, \h23 >>)

EFI_GLOBAL_VARIABLE ==
    EFI_GUID(\h8BE4, \hDF61, \h93CA, \h11d2,
             << \hAA, \h0D, \h00, \hE0, \h98, \h03, \h2B, \h8C >>)

EFI_IMAGE_SECURITY_DATABASE_GUID ==
    EFI_GUID(\hd719, \hb2cb, \h3d3a, \h4596,
             << \ha3, \hbc, \hda, \hd0, \h0e, \h67, \h65, \h6f >>)

EfiCertX509Guid ==
    EFI_GUID(\ha5c0, \h59a1, \h94e4, \h4aa7,
             << \h87, \hb5, \hab, \h15, \h5c, \h2b, \hf0, \h72 >>)

EfiHashSha256Guid ==
    EFI_GUID(\hc1c4, \h1626, \h504c, \h4092,
             << \hac, \ha9, \h41, \hf9, \h36, \h93, \h43, \h28 >>)

(***************************************************************************)
(* Reading a buffer.  A read at or past the end of the buffer is undefined *)
(* behaviour: it returns whatever lies behind the allocation (garbage).    *)
(***************************************************************************)
Byte(data, off) ==
    IF 0 <= off /\ off < Len(data) THEN data[off + 1] ELSE garbage

Rd32(data, off) ==
    LET b3 == Byte(data, off + 3)
    IN  Byte(data, off) + 256 * Byte(data, off + 1) + 65536 * Byte(data, off + 2)
            + 16777216 * (IF b3 < 128 THEN b3 ELSE b3 - 256)

RdBytes(data, off, len) ==
    IF 0 <= off /\ off + len <= Len(data)
    THEN SubSeq(data, off + 1, off + len)
    ELSE [i \in 1..len |-> Byte(data, off + i - 1)]

\* efi_guidcmp (the guid at off, guid) == 0
GuidIs(data, off, guid) == RdBytes(data, off, SizeofGuid) = guid

Max(a, b) == IF a >= b THEN a ELSE b

\* sequencing: v is computed once, and F is applied to its value
Then(v, F(_)) == CHOOSE r \in {F(x) : x \in {v}} : TRUE

(***************************************************************************)
(* build_mok_list: walk the signature lists of data, one node per X.509 or *)
(* SHA-256 list.  A node is the size of the key and the offset of its      *)
(* first byte in data.  The result also tells the end of the highest byte  *)
(* the walk read (maxread) and whether the walk never ends (hang: the      *)
(* loop condition holds and SignatureListSize is 0, so nothing changes).   *)
(***************************************************************************)
RECURSIVE bml_loop(_, _, _, _, _)
bml_loop(data, off, dbsize, list, maxread) ==
    IF dbsize = 0
    THEN [list |-> list, hang |-> FALSE, maxread |-> maxread]
    ELSE
    Then([SignatureListSize |-> Rd32(data, off + OffSignatureListSize),
          SignatureHeaderSize |-> Rd32(data, off + OffSignatureHeaderSize),
          SignatureSize |-> Rd32(data, off + OffSignatureSize),
          isCert |-> GuidIs(data, off, EfiCertX509Guid),
          isHash |-> GuidIs(data, off, EfiHashSha256Guid)],
    LAMBDA CertList :
    LET rdCond == Max(maxread, off + OffSignatureListSize + SizeofU32)
        rdAll == Max(maxread, off + SizeofSigList)
        Cert == OffAdd(off + SizeofSigList, CertList.SignatureHeaderSize)
        node == [mok_size |-> U32Sub(CertList.SignatureSize, SizeofGuid),
                 mok |-> OffAdd(Cert, SizeofGuid)]
    IN  IF ~GeU32(dbsize, CertList.SignatureListSize)
        THEN [list |-> list, hang |-> FALSE, maxread |-> rdCond]
        ELSE IF CertList.SignatureListSize = 0
        THEN [list |-> list, hang |-> TRUE, maxread |-> rdAll]
        ELSE IF ~CertList.isCert /\ ~CertList.isHash
        THEN bml_loop(data, off + CertList.SignatureListSize,
                      dbsize - CertList.SignatureListSize, list, rdCond)
        ELSE IF CertList.isHash /\ CertList.SignatureSize # 48
        THEN bml_loop(data, off + CertList.SignatureListSize,
                      dbsize - CertList.SignatureListSize, list, rdAll)
        ELSE bml_loop(data, off + CertList.SignatureListSize,
                      dbsize - CertList.SignatureListSize, Append(list, node), rdAll))

build_mok_list(data, data_size) == bml_loop(data, 0, data_size, << >>, 0)

(***************************************************************************)
(* The store: read_variable, test_variable.                                *)
(***************************************************************************)
Key(name, guid) == << name, guid >>

Exists(st, name, guid) == Key(name, guid) \in DOMAIN st

Data(st, name, guid) == st[Key(name, guid)]

\* memcmp (list[i].mok, cert, cert_size) == 0
MokEquals(data, node, cert, cert_size) ==
    RdBytes(data, node.mok, cert_size) = SubSeq(cert, 1, cert_size)

(***************************************************************************)
(* is_duplicate: is cert the key of a node of the named list.              *)
(***************************************************************************)
is_duplicate(st, cert, cert_size, db_name, guid) ==
    IF cert_size = 0 THEN FALSE
    ELSE IF ~Exists(st, db_name, guid) THEN FALSE
    ELSE Then(build_mok_list(Data(st, db_name, guid), Len(Data(st, db_name, guid))).list,
         LAMBDA list :
             \E i \in 1..Len(list) :
                 /\ list[i].mok_size = cert_size
                 /\ MokEquals(Data(st, db_name, guid), list[i], cert, cert_size))

(***************************************************************************)
(* is_valid_request: may mok be enrolled (import) or deleted.              *)
(***************************************************************************)
is_valid_request_no_pending(st, mok, mok_size, import) ==
    IF import
    THEN ~(\/ is_duplicate(st, mok, mok_size, "PK", EFI_GLOBAL_VARIABLE)
           \/ is_duplicate(st, mok, mok_size, "KEK", EFI_GLOBAL_VARIABLE)
           \/ is_duplicate(st, mok, mok_size, "db", EFI_IMAGE_SECURITY_DATABASE_GUID)
           \/ is_duplicate(st, mok, mok_size, "MokListRT", SHIM_LOCK_GUID))
    ELSE ~(\/ ~is_duplicate(st, mok, mok_size, "MokListRT", SHIM_LOCK_GUID))

is_valid_request(st, mok, mok_size, import) ==
    IF import
    THEN ~(\/ is_duplicate(st, mok, mok_size, "PK", EFI_GLOBAL_VARIABLE)
           \/ is_duplicate(st, mok, mok_size, "KEK", EFI_GLOBAL_VARIABLE)
           \/ is_duplicate(st, mok, mok_size, "db", EFI_IMAGE_SECURITY_DATABASE_GUID)
           \/ is_duplicate(st, mok, mok_size, "MokListRT", SHIM_LOCK_GUID)
           \/ is_duplicate(st, mok, mok_size, "MokNew", SHIM_LOCK_GUID))
    ELSE ~(\/ ~is_duplicate(st, mok, mok_size, "MokListRT", SHIM_LOCK_GUID)
           \/ is_duplicate(st, mok, mok_size, "MokDel", SHIM_LOCK_GUID))

(***************************************************************************)
(* test_key: is the key of key_file in a key list or about to be enrolled. *)
(* io is the file operation that fails ("none": the file is read whole).   *)
(***************************************************************************)
test_key(st, key, read_size, io) ==
    IF io = "stat" THEN [ret |-> -1, out |-> << "stderr", "Failed to get file status" >>]
    ELSE IF io = "open" THEN [ret |-> -1, out |-> << "stderr", "Failed to open" >>]
    ELSE IF io = "read" THEN [ret |-> -1, out |-> << "stderr", "Failed to read" >>]
    ELSE IF /\ ~is_duplicate(st, key, read_size, "PK", EFI_GLOBAL_VARIABLE)
            /\ ~is_duplicate(st, key, read_size, "KEK", EFI_GLOBAL_VARIABLE)
            /\ ~is_duplicate(st, key, read_size, "db", EFI_GLOBAL_VARIABLE)
            /\ ~is_duplicate(st, key, read_size, "MokListRT", SHIM_LOCK_GUID)
            /\ ~is_duplicate(st, key, read_size, "MokNew", SHIM_LOCK_GUID)
    THEN [ret |-> 0, out |-> << "stdout", "is not enrolled" >>]
    ELSE [ret |-> 1, out |-> << "stdout", "is already enrolled" >>]

(***************************************************************************)
(* The process's environment while one command runs: the store, the lines  *)
(* still to be read from the terminal, which of the command's store        *)
(* updates fail (by their number), what a read into a freed line buffer    *)
(* does ("reuse": as if it were not freed, "crash": the process is         *)
(* killed), and the events so far.                                         *)
(***************************************************************************)
NULL == << -1 >>

Sys(st, tty, faults, uaf) ==
    [st |-> st, tty |-> tty, faults |-> faults, uaf |-> uaf, calls |-> 0,
     ev |-> << >>]

Emit(sys, e) == [sys EXCEPT !.ev = Append(@, e)]

\* edit_variable: create or overwrite the variable; a failed write changes nothing
edit_variable(sys, name, guid, data) ==
    LET k == sys.calls + 1
        ok == k \notin sys.faults
        st2 == IF ok
               THEN [x \in DOMAIN sys.st \cup {Key(name, guid)} |->
                        IF x = Key(name, guid) THEN data ELSE sys.st[x]]
               ELSE sys.st
    IN  [sys |-> Emit([sys EXCEPT !.st = st2, !.calls = k], << "edit", name, ok >>),
         ok |-> ok]

\* delete_variable: a failed delete changes nothing
delete_variable(sys, name, guid) ==
    LET k == sys.calls + 1
        ok == k \notin sys.faults
        st2 == IF ok
               THEN [x \in DOMAIN sys.st \ {Key(name, guid)} |-> sys.st[x]]
               ELSE sys.st
    IN  [sys |-> Emit([sys EXCEPT !.st = st2, !.calls = k], << "delete", name, ok >>),
         ok |-> ok]

test_and_delete_var(sys, var_name) ==
    IF Exists(sys.st, var_name, SHIM_LOCK_GUID)
    THEN Then(delete_variable(sys, var_name, SHIM_LOCK_GUID), LAMBDA d :
              IF ~d.ok
              THEN [sys |-> Emit(d.sys, << "stderr", "Failed to unset", var_name >>),
                    ret |-> -1]
              ELSE [sys |-> d.sys, ret |-> 0])
    ELSE [sys |-> sys, ret |-> 0]

(***************************************************************************)
(* Passwords.                                                              *)
(***************************************************************************)
PASSWORD_MAX == 16
PASSWORD_MIN == 8

\* read_hidden_line: the next line of the terminal, without its newline
read_hidden_line(sys) ==
    [sys |-> Emit([sys EXCEPT !.tty = Tail(@)], << "getline", "stdin", Head(sys.tty) >>),
     line |-> Head(sys.tty), len |-> Len(Head(sys.tty))]

RECURSIVE gp_first(_, _, _, _)
gp_first(sys, fail, min, max) ==
    IF ~(fail < 3) THEN [sys |-> sys, fail |-> fail, password_1 |-> << >>]
    ELSE Then(read_hidden_line(Emit(sys, << "prompt", "input password" >>)), LAMBDA r :
              IF r.len > max \/ r.len < min
              THEN gp_first(Emit(r.sys, << "stderr", "password should be" >>),
                            fail + 1, min, max)
              ELSE [sys |-> r.sys, fail |-> fail, password_1 |-> r.line])

\* the C string of a line: its bytes before the first 0
RECURSIVE CStr(_)
CStr(line) ==
    IF line = << >> \/ Head(line) = 0 THEN << >>
    ELSE << Head(line) >> \o CStr(Tail(line))

strcmp_always_equal(a, b) == 0

\* strcmp (a, b): 0 when the strings are equal
strcmp(a, b) == IF CStr(a) = CStr(b) THEN 0 ELSE 1

RECURSIVE gp_second(_, _, _)
gp_second(sys, fail, password_1) ==
    IF ~(fail < 3) THEN [sys |-> sys, fail |-> fail]
    ELSE Then(read_hidden_line(Emit(sys, << "prompt", "input password again" >>)),
         LAMBDA r :
              IF Len(password_1) # r.len \/ strcmp(password_1, r.line) # 0
              THEN gp_second(Emit(r.sys, << "stderr", "password doesn't match" >>),
                             fail + 1, password_1)
              ELSE [sys |-> r.sys, fail |-> fail])

get_password(sys, min, max) ==
    Then(gp_first(sys, 0, min, max), LAMBDA a :
        IF a.fail >= 3 THEN [sys |-> a.sys, ret |-> -1, password |-> << >>]
        ELSE Then(gp_second(a.sys, 0, a.password_1), LAMBDA b :
            IF b.fail >= 3 THEN [sys |-> b.sys, ret |-> -1, password |-> << >>]
            ELSE [sys |-> b.sys, ret |-> 0, password |-> a.password_1]))

Min(a, b) == IF a <= b THEN a ELSE b

\* efichar_from_char: one little-endian 16-bit unit per character, at most
\* dest_len / 2 - 1 of them; the bytes written before the terminator
efichar_from_char(src, dest_len) ==
    LET cnt == Min(Len(src), dest_len \div 2 - 1)
        RECURSIVE conv(_)
        conv(i) == IF i > cnt THEN << >> ELSE Le16(src[i]) \o conv(i + 1)
    IN  conv(1)

\* SHA-256 of msg, taken to be injective: the digest stands for its message
SHA256(msg) == [sha256 |-> msg]

generate_auth(new_list, list_len, password) ==
    LET efichar_pass == efichar_from_char(password, (PASSWORD_MAX + 1) * 2)
    IN  SHA256((IF new_list # NULL THEN SubSeq(new_list, 1, list_len) ELSE << >>)
               \o efichar_pass)

(***************************************************************************)
(* verify_old_req: ask for the password of the pending request, 3 times at *)
(* most.  A line of invalid length is freed and the next getline is handed *)
(* the freed buffer (freed): undefined behaviour, sys.uaf tells its result.*)
(***************************************************************************)
RECURSIVE vor_loop(_, _, _, _, _, _)
vor_loop(sys, fail, freed, old_req, old_req_size, stored) ==
    IF ~(fail < 3) THEN [sys |-> sys, ret |-> 0, crashed |-> FALSE]
    ELSE IF freed /\ sys.uaf = "crash"
    THEN [sys |-> Emit(sys, << "prompt", "input old password" >>), ret |-> 0,
          crashed |-> TRUE]
    ELSE Then(read_hidden_line(Emit(sys, << "prompt", "input old password" >>)),
         LAMBDA r :
              IF r.len > PASSWORD_MAX \/ r.len < PASSWORD_MIN
              THEN vor_loop(Emit(r.sys, << "stderr", "invalid password" >>),
                            fail + 1, TRUE, old_req, old_req_size, stored)
              ELSE IF generate_auth(old_req, old_req_size, r.line) = stored
              THEN [sys |-> r.sys, ret |-> 1, crashed |-> FALSE]
              ELSE vor_loop(r.sys, fail + 1, freed, old_req, old_req_size, stored))

AuthName(import) == IF import THEN "MokAuth" ELSE "MokDelAuth"

ReqName_shared(import) == "MokNew"

ReqName(import) == IF import THEN "MokNew" ELSE "MokDel"

verify_old_req(sys, old_req, old_req_size, import) ==
    IF ~Exists(sys.st, AuthName(import), SHIM_LOCK_GUID)
    THEN [sys |-> Emit(sys, << "stderr", "Failed to read", AuthName(import) >>),
          ret |-> 0, crashed |-> FALSE]
    ELSE vor_loop(sys, 0, FALSE, old_req, old_req_size,
                  Data(sys.st, AuthName(import), SHIM_LOCK_GUID))

(***************************************************************************)
(* update_request: ask for the new password, write the request and its     *)
(* authentication tag.                                                     *)
(***************************************************************************)
update_request(sys, new_list, list_len, import) ==
    Then(get_password(sys, PASSWORD_MIN, PASSWORD_MAX), LAMBDA g :
    IF g.ret < 0
    THEN [sys |-> Emit(g.sys, << "stderr", "Abort" >>), ret |-> -1, password |-> << >>]
    ELSE
    Then(IF new_list # NULL
         THEN edit_variable(g.sys, ReqName(import), SHIM_LOCK_GUID,
                            SubSeq(new_list, 1, list_len))
         ELSE [sys |-> test_and_delete_var(g.sys, ReqName(import)).sys, ok |-> TRUE],
    LAMBDA w :
    IF ~w.ok
    THEN [sys |-> Emit(w.sys, << "stderr", "Failed to enroll/delete keys" >>),
          ret |-> -1, password |-> g.password]
    ELSE
    Then(edit_variable(w.sys, AuthName(import), SHIM_LOCK_GUID,
                       generate_auth(new_list, list_len, g.password)),
    LAMBDA a :
    IF ~a.ok
    THEN Then(Emit(a.sys, << "stderr", "Failed to write", AuthName(import) >>),
         LAMBDA s : [sys |-> test_and_delete_var(s, ReqName(import)).sys,
                     ret |-> -1, password |-> g.password])
    ELSE [sys |-> a.sys, ret |-> 0, password |-> g.password])))

(***************************************************************************)
(* issue_mok_request.  files is the sequence of the files' contents; io    *)
(* tells which file operation fails, if any: << "stat" | "open" | "read",  *)
(* index of the file >> or << "none", 0 >>.                                *)
(***************************************************************************)
WriteAt_dropped(buf, off, bytes) == buf

WriteAt(buf, off, bytes) ==
    SubSeq(buf, 1, off) \o bytes \o SubSeq(buf, off + Len(bytes) + 1, Len(buf))

RECURSIVE SumSizes(_, _)
SumSizes(files, i) == IF i > Len(files) THEN 0 ELSE Len(files[i]) + SumSizes(files, i + 1)

\* is_valid_cert: does OpenSSL parse the blob as a DER certificate; here, does
\* it start with the tag of a DER SEQUENCE
is_valid_cert(cert, cert_size) == cert_size > 0 /\ cert[1] = \h30

RecordHeader_size_off_by_one(size) ==
    EfiCertX509Guid
        \o Le32(size + SizeofSigList + SizeofSigData)
        \o Le32(0)
        \o Le32(size + SizeofGuid)
        \o SHIM_LOCK_GUID

\* the header of the record of the for loop, without the key
RecordHeader(size) ==
    EfiCertX509Guid
        \o Le32(size + SizeofSigList + SizeofSigData - 1)
        \o Le32(0)
        \o Le32(size + SizeofGuid)
        \o SHIM_LOCK_GUID

RECURSIVE imr_loop(_, _, _, _, _, _, _, _, _)
imr_loop(sys, files, i, import, io, buf, ptr, real_size, elig) ==
    IF i > Len(files)
    THEN [sys |-> sys, failed |-> FALSE, buf |-> buf, real_size |-> real_size,
          elig |-> elig]
    ELSE
    Then([size |-> Len(files[i]),
          CertData |-> ptr + SizeofSigList,
          buf |-> WriteAt(buf, ptr, RecordHeader(Len(files[i])))],
    LAMBDA hdr :
    IF io = << "open", i >>
    THEN [sys |-> Emit(sys, << "stderr", "Failed to open", i >>), failed |-> TRUE,
          buf |-> hdr.buf, real_size |-> real_size, elig |-> elig]
    ELSE IF io = << "read", i >>
    THEN [sys |-> Emit(sys, << "stderr", "Failed to read", i >>), failed |-> TRUE,
          buf |-> hdr.buf, real_size |-> real_size, elig |-> elig]
    ELSE
    Then([ptr |-> hdr.CertData + SizeofGuid,
          buf |-> WriteAt(hdr.buf, hdr.CertData + SizeofGuid, files[i]),
          sys |-> IF is_valid_cert(files[i], hdr.size) THEN sys
                  ELSE Emit(sys, << "stderr", "Warning!!! not a valid x509 certificate",
                                   i >>)],
    LAMBDA rd :
    Then(is_valid_request(rd.sys.st, RdBytes(rd.buf, rd.ptr, hdr.size), hdr.size, import),
    LAMBDA valid :
    IF valid
    THEN imr_loop(rd.sys, files, i + 1, import, io, rd.buf, rd.ptr + hdr.size,
                  real_size + hdr.size + SizeofSigList + SizeofGuid, Append(elig, i))
    ELSE imr_loop(Emit(rd.sys, << "stdout", "Skip", i >>), files, i + 1, import, io,
                  rd.buf, rd.ptr - (SizeofSigList + SizeofGuid), real_size, elig))))

\* if (old_req.Data) { if (!verify_old_req (...)) goto error; ...
old_req_rejected_skipped(has_old, verified) == FALSE

old_req_rejected(has_old, verified) == has_old /\ verified = 0

Done(sys, ret, crashed, elig, verify, password, handed) ==
    [sys |-> sys, ret |-> ret, crashed |-> crashed, elig |-> elig,
     verify |-> verify, password |-> password, handed |-> handed]

issue_mok_request(sys, files, import, io) ==
    LET req_name == ReqName(import)
        total == Len(files)
        has_old == Exists(sys.st, req_name, SHIM_LOCK_GUID)
        old_req == IF has_old THEN Data(sys.st, req_name, SHIM_LOCK_GUID) ELSE << >>
        list_size == SumSizes(files, 1) + SizeofSigList * total + SizeofGuid * total
                        + Len(old_req)
    IN  IF io[1] = "stat"
        THEN Done(Emit(sys, << "stderr", "Failed to get file status", io[2] >>), -1,
                  FALSE, << >>, "none", << >>, NULL)
        ELSE
        Then(imr_loop(sys, files, 1, import, io, [i \in 1..list_size |-> garbage],
                      0, 0, << >>),
        LAMBDA l :
        IF l.failed
        THEN Done(l.sys, -1, FALSE, l.elig, "none", << >>, NULL)
        ELSE IF l.real_size = 0
        THEN Done(l.sys, 0, FALSE, l.elig, "none", << >>, NULL)
        ELSE
        Then(IF has_old THEN verify_old_req(l.sys, old_req, Len(old_req), import)
             ELSE [sys |-> l.sys, ret |-> 1, crashed |-> FALSE],
        LAMBDA v :
        IF has_old /\ v.crashed
        THEN Done(v.sys, -1, TRUE, l.elig, "crash", << >>, NULL)
        ELSE IF old_req_rejected(has_old, v.ret)
        THEN Done(v.sys, -1, FALSE, l.elig, "fail", << >>, NULL)
        ELSE
        Then([new_list |-> IF has_old THEN WriteAt(l.buf, l.real_size, old_req)
                           ELSE l.buf,
              real_size |-> l.real_size + Len(old_req)],
        LAMBDA m :
        Then(update_request(v.sys, m.new_list, m.real_size, import),
        LAMBDA u :
        Done(u.sys, u.ret, FALSE, l.elig,
             IF ~has_old THEN "none" ELSE IF v.ret = 0 THEN "fail" ELSE "ok",
             u.password, SubSeq(m.new_list, 1, m.real_size))))))

import_moks(sys, files, io) == issue_mok_request(sys, files, TRUE, io)

delete_moks(sys, files, io) == issue_mok_request(sys, files, FALSE, io)

(***************************************************************************)
(* revoke_request, reset_moks.                                             *)
(***************************************************************************)
revoke_request(sys) ==
    Then(test_and_delete_var(sys, "MokNew"), LAMBDA a :
        IF a.ret < 0 THEN Done(a.sys, -1, FALSE, << >>, "none", << >>, NULL)
        ELSE Then(test_and_delete_var(a.sys, "MokAuth"), LAMBDA b :
            IF b.ret < 0 THEN Done(b.sys, -1, FALSE, << >>, "none", << >>, NULL)
            ELSE Done(b.sys, 0, FALSE, << >>, "none", << >>, NULL)))

reset_moks(sys) ==
    Then(update_request(sys, NULL, 0, TRUE), LAMBDA u :
        IF u.ret # 0
        THEN Done(Emit(u.sys, << "stderr", "Failed to issue a reset request" >>), -1,
                  FALSE, << >>, "none", u.password, NULL)
        ELSE Done(u.sys, 0, FALSE, << >>, "none", u.password, NULL))

(***************************************************************************)
(* Inputs: key files, terminal scripts, store faults.                      *)
(***************************************************************************)
KeyA == << \h30, \h01 >>
KeyB == << \h30, \h02 >>
KeyC == << \h31, \h03 >>
KeyP == << \h30 >>

\* the files an operator names: KeyA is enrolled, KeyP (the first byte of KeyA)
\* is not
Blobs == {KeyA, KeyP}

RECURSIVE SeqsUpTo(_, _)
SeqsUpTo(S, k) ==
    IF k = 0 THEN {<< >>}
    ELSE LET shorter == SeqsUpTo(S, k - 1)
         IN  shorter \cup {Append(t, x) : t \in shorter, x \in S}

Batches == SeqsUpTo(Blobs, MaxFiles) \ {<< >>}

NoIo == << "none", 0 >>

IoFailures(files) ==
    {<< k, i >> : k \in {"stat", "open", "read"}, i \in 1..Len(files)}

Rep(c, k) == [i \in 1..k |-> c]

Good1 == Rep(97, PASSWORD_MIN)
Good2 == Rep(98, PASSWORD_MAX)
Good3 == Rep(98, PASSWORD_MIN)
Short == Rep(97, PASSWORD_MIN - 1)

\* the lines the operator types: never fewer than the 3 + 3 + 3 prompts of a command
Script(first, rest) == << first >> \o Rep(rest, 8)

TtyScripts ==
    { Script(Good1, Good1), Script(Good2, Good2), Script(Good1, Good2),
      Script(Short, Good1), Script(Short, Short),
      << Short, Short, Good1 >> \o Rep(Good2, 6),
      << Good1, Good3, Good3 >> \o Rep(Good1, 6) }

\* the store updates of one command are numbered 1, 2, 3
StoreFaults == SUBSET (1..3)

Run(tty, uaf, faults) == [tty |-> tty, uaf |-> uaf, faults |-> faults]

\* what happens around a command: what is typed, which store updates fail, what
\* the use of the freed line buffer does
Runs ==
    {Run(t, "reuse", {}) : t \in TtyScripts}
        \cup {Run(Script(Good1, Good1), "reuse", f) : f \in StoreFaults}
        \cup {Run(Script(Short, Good1), "crash", {})}

\* the signature lists the tool itself writes: one X.509 list per key
ListOf(keys) ==
    LET RECURSIVE enc(_)
        enc(i) == IF i > Len(keys) THEN << >>
                  ELSE RecordHeader(Len(keys[i])) \o keys[i] \o enc(i + 1)
    IN  enc(1)

NoCommand ==
    [cmd |-> "none", files |-> << >>, io |-> NoIo, ret |-> 0,
     crashed |-> FALSE, pre |-> << >>, ev |-> << >>, elig |-> << >>,
     verify |-> "none", password |-> << >>, handed |-> NULL, repeat |-> FALSE]

NoQuery == [op |-> "none"]

\* the tag the tool stores for a request written with password
TagOf(list, password) == generate_auth(list, Len(list), password)

Enrolled == Key("MokListRT", SHIM_LOCK_GUID) :> ListOf(<< KeyA, KeyB >>)

\* KeyA and KeyB are enrolled and no request is pending
CleanStore == Enrolled

\* earlier runs left a request to enroll KeyC and a request to delete KeyB
PendingStore ==
    Enrolled
        @@ Key("MokNew", SHIM_LOCK_GUID) :> ListOf(<< KeyC >>)
        @@ Key("MokAuth", SHIM_LOCK_GUID) :> TagOf(ListOf(<< KeyC >>), Good1)
        @@ Key("MokDel", SHIM_LOCK_GUID) :> ListOf(<< KeyB >>)
        @@ Key("MokDelAuth", SHIM_LOCK_GUID) :> TagOf(ListOf(<< KeyB >>), Good1)

Init ==
    /\ store \in {CleanStore, PendingStore}
    /\ garbage = 0
    /\ last = NoCommand
    /\ prev = << >>
    /\ n = 0
    /\ q = NoQuery

Idle == last.cmd = "none" /\ n < MaxInvocations

Finish(cmd, files, io, r) ==
    /\ store' = r.sys.st
    /\ last' = [cmd |-> cmd, files |-> files, io |-> io, ret |-> r.ret,
                crashed |-> r.crashed, pre |-> store, ev |-> r.sys.ev,
                elig |-> r.elig, verify |-> r.verify, password |-> r.password,
                handed |-> r.handed,
                repeat |-> cmd = "import" /\ files = << prev >> /\ io = NoIo]
    /\ n' = n + 1
    /\ UNCHANGED << garbage, prev, q >>

Import ==
    /\ Idle
    /\ \E files \in Batches :
          \/ \E io \in IoFailures(files) :
                \E r \in {import_moks(Sys(store, << >>, {}, "reuse"), files, io)} :
                    Finish("import", files, io, r)
          \/ \E run \in Runs :
                \E r \in {import_moks(Sys(store, run.tty, run.faults, run.uaf),
                                      files, NoIo)} :
                    Finish("import", files, NoIo, r)

Delete ==
    /\ Idle
    /\ \E files \in Batches :
          \/ \E io \in IoFailures(files) :
                \E r \in {delete_moks(Sys(store, << >>, {}, "reuse"), files, io)} :
                    Finish("delete", files, io, r)
          \/ \E run \in Runs :
                \E r \in {delete_moks(Sys(store, run.tty, run.faults, run.uaf),
                                      files, NoIo)} :
                    Finish("delete", files, NoIo, r)

Revoke ==
    /\ Idle
    /\ \E faults \in StoreFaults :
          \E r \in {revoke_request(Sys(store, << >>, faults, "reuse"))} :
              Finish("revoke", << >>, NoIo, r)

Reset ==
    /\ Idle
    /\ \E run \in Runs :
          \E r \in {reset_moks(Sys(store, run.tty, run.faults, run.uaf))} :
              Finish("reset", << >>, NoIo, r)

\* main returns: the process ends and only the store remains
Exit ==
    /\ last.cmd # "none"
    /\ last' = NoCommand
    /\ prev' = IF /\ last.cmd = "import" /\ Len(last.files) = 1
                  /\ last.ret = 0 /\ last.elig # << >> /\ last.files[1] # << >>
               THEN last.files[1] ELSE << >>
    /\ UNCHANGED << store, garbage, n, q >>

Next == Import \/ Delete \/ Revoke \/ Reset \/ Exit

Spec == Init /\ [][Next]_vars

(***************************************************************************)
(* The pure functions on their own: a store the firmware supplies, and one *)
(* query of it at a time.                                                  *)
(***************************************************************************)
RECURSIVE Concat(_)
Concat(ss) == IF ss = << >> THEN << >> ELSE Head(ss) \o Concat(Tail(ss))

\* one EFI signature list: the header, hdr_bytes of signature header, and one
\* EFI_SIGNATURE_DATA (owner, payload) per payload, all of one size
SigList(type, hdr_bytes, owner, payloads) ==
    LET SignatureSize == SizeofGuid + Len(payloads[1])
    IN  type
            \o Le32(SizeofSigList + Len(hdr_bytes) + Len(payloads) * SignatureSize)
            \o Le32(Len(hdr_bytes))
            \o Le32(SignatureSize)
            \o hdr_bytes
            \o Concat([i \in 1..Len(payloads) |-> owner \o payloads[i]])

Hash1 == Rep(7, 32)

EfiCertRsa2048Guid ==
    EFI_GUID(\h3c57, \h90e8, \he2b7, \h4204,
             << \hb7, \h09, \hf2, \h29, \h05, \hcf, \h36, \hf6 >>)

\* lists as firmware and shim write them
FirmwareLists ==
    { ListOf(<< KeyA >>),
      ListOf(<< KeyP, KeyB >>),
      SigList(EfiCertX509Guid, << >>, EFI_GLOBAL_VARIABLE, << KeyB, KeyA >>),
      SigList(EfiCertX509Guid, << 0, 0 >>, EFI_GLOBAL_VARIABLE, << KeyA >>),
      SigList(EfiHashSha256Guid, << >>, SHIM_LOCK_GUID, << Hash1 >>),
      SigList(EfiHashSha256Guid, << >>, SHIM_LOCK_GUID, << KeyA >>),
      SigList(EfiCertRsa2048Guid, << >>, SHIM_LOCK_GUID, << KeyA >>)
          \o ListOf(<< KeyB >>) }

ListKeys ==
    { Key("PK", EFI_GLOBAL_VARIABLE), Key("KEK", EFI_GLOBAL_VARIABLE),
      Key("db", EFI_IMAGE_SECURITY_DATABASE_GUID), Key("db", EFI_GLOBAL_VARIABLE),
      Key("MokListRT", SHIM_LOCK_GUID), Key("MokNew", SHIM_LOCK_GUID),
      Key("MokDel", SHIM_LOCK_GUID) }

EmptyStore == [k \in {} |-> << >>]

QueryStores ==
    {EmptyStore}
        \cup {k :> b : k \in ListKeys, b \in FirmwareLists}
        \cup {Key("MokListRT", SHIM_LOCK_GUID) :> b1 @@ Key("MokDel", SHIM_LOCK_GUID) :> b2 :
                 b1 \in FirmwareLists, b2 \in FirmwareLists}

Candidates == {KeyA, KeyB, KeyC, KeyP, Hash1, << >>}

GarbageBytes == {0, 255}

QInit ==
    /\ store \in QueryStores
    /\ garbage \in GarbageBytes
    /\ last = NoCommand
    /\ prev = << >>
    /\ n = 0
    /\ q = NoQuery

\* is_valid_request (cert, size, import)
QueryValid ==
    /\ q = NoQuery
    /\ \E cert \in Candidates, import \in BOOLEAN :
          q' = [op |-> "is_valid_request", cert |-> cert, import |-> import,
                result |-> is_valid_request(store, cert, Len(cert), import)]
    /\ UNCHANGED << store, garbage, last, prev, n >>

\* is_duplicate (cert, size, db_name, guid)
QueryDuplicate ==
    /\ q = NoQuery
    /\ \E cert \in Candidates, k \in ListKeys :
          q' = [op |-> "is_duplicate", cert |-> cert, key |-> k,
                result |-> is_duplicate(store, cert, Len(cert), k[1], k[2])]
    /\ UNCHANGED << store, garbage, last, prev, n >>

CodecBlobs == {KeyA, KeyB, KeyP, << >>}

\* the record loop of issue_mok_request on files, and build_mok_list of the
\* bytes it built
RoundTrip ==
    /\ q = NoQuery
    /\ \E files \in SeqsUpTo(CodecBlobs, MaxFiles) \ {<< >>}, import \in BOOLEAN :
          LET list_size == SumSizes(files, 1) + SizeofSigList * Len(files)
                              + SizeofGuid * Len(files)
          IN  \E l \in {imr_loop(Sys(store, << >>, {}, "reuse"), files, 1, import, NoIo,
                                 [i \in 1..list_size |-> garbage], 0, 0, << >>)} :
                  \E buf \in {SubSeq(l.buf, 1, l.real_size)} :
                      q' = [op |-> "roundtrip", files |-> files, import |-> import,
                            elig |-> l.elig, buf |-> buf,
                            decoded |-> build_mok_list(buf, Len(buf))]
    /\ UNCHANGED << store, garbage, last, prev, n >>

\* build_mok_list of the first k bytes of a buffer the tool encoded; the bytes
\* behind the prefix are not the buffer's (garbage)
DecodePrefix ==
    /\ q = NoQuery
    /\ store = EmptyStore
    /\ \E files \in SeqsUpTo(CodecBlobs, MaxFiles) \ {<< >>} :
          \E k \in 0..(Len(ListOf(files)) - 1) :
              \E prefix \in {SubSeq(ListOf(files), 1, k)} :
                  q' = [op |-> "prefix", files |-> files, k |-> k,
                        decoded |-> build_mok_list(prefix, k),
                        full |-> build_mok_list(ListOf(files), Len(ListOf(files)))]
    /\ UNCHANGED << store, garbage, last, prev, n >>

\* list byte strings a tag is derived over: none (NULL), lists the tool encodes,
\* and one followed by two more bytes
AuthLists ==
    { NULL, << >>, ListOf(<< KeyP >>), ListOf(<< KeyP >>) \o << 97, 0 >>,
      ListOf(<< KeyA >>), ListOf(<< KeyP, KeyA >>) }

Passwords == { Good1, Rep(97, PASSWORD_MIN + 1), Good3, Good2 }

\* generate_auth (A, |A|, p, ...) and generate_auth (B, |B|, q, ...)
QueryAuth ==
    /\ q = NoQuery
    /\ store = EmptyStore
    /\ \E A \in AuthLists, B \in AuthLists, p1 \in Passwords, p2 \in Passwords :
          q' = [op |-> "generate_auth", A |-> A, p |-> p1, B |-> B, q |-> p2,
                authA |-> generate_auth(A, IF A = NULL THEN 0 ELSE Len(A), p1),
                authB |-> generate_auth(B, IF B = NULL THEN 0 ELSE Len(B), p2)]
    /\ UNCHANGED << store, garbage, last, prev, n >>

FileIo == {"none", "stat", "open", "read"}

\* test_key (key_file), and is_valid_request in import mode of the same key
QueryTestKey ==
    /\ q = NoQuery
    /\ \E cert \in Candidates, io \in FileIo :
          q' = [op |-> "test_key", cert |-> cert, io |-> io,
                result |-> test_key(store, cert, Len(cert), io),
                valid |-> is_valid_request(store, cert, Len(cert), TRUE)]
    /\ UNCHANGED << store, garbage, last, prev, n >>

\* a SignatureListSize a corrupt list declares: 0, or less than the fixed header
DeclaredSizes == {0, SizeofU32, SizeofSigList - 1}

\* firmware lists whose first record declares size s in place of its own
DeclaredAs(s) ==
    {WriteAt(b, OffSignatureListSize, Le32(s)) \o rest :
        b \in {ListOf(<< KeyA >>),
               SigList(EfiCertRsa2048Guid, << >>, SHIM_LOCK_GUID, << KeyA >>)},
        rest \in {<< >>, ListOf(<< KeyB >>)}}

\* build_mok_list of a list as firmware hands it over, corrupt or not
Decode ==
    /\ q = NoQuery
    /\ store = EmptyStore
    /\ \E s \in DeclaredSizes \cup {Len(ListOf(<< KeyA >>))} :
          \E data \in DeclaredAs(s) :
              q' = [op |-> "decode", declared |-> s, data |-> data,
                    decoded |-> build_mok_list(data, Len(data))]
    /\ UNCHANGED << store, garbage, last, prev, n >>

QNext ==
    \/ QueryValid
    \/ QueryDuplicate
    \/ RoundTrip
    \/ DecodePrefix
    \/ QueryAuth
    \/ QueryTestKey
    \/ Decode

QuerySpec == QInit /\ [][QNext]_vars

(***************************************************************************)
(* What the properties are stated with.                                    *)
(***************************************************************************)
ReqKey(import) == Key(ReqName(import), SHIM_LOCK_GUID)

AuthKey(import) == Key(AuthName(import), SHIM_LOCK_GUID)

IsIssue == last.cmd \in {"import", "delete"}

\* the same variable, present or absent, with the same bytes
Same(st1, st2, k) ==
    /\ (k \in DOMAIN st1) = (k \in DOMAIN st2)
    /\ k \in DOMAIN st1 => st1[k] = st2[k]

\* the store updates a command attempted
Updates(ev) == {i \in 1..Len(ev) : ev[i][1] \in {"edit", "delete"}}

\* the lines typed at the prompts for the old password
OldAttempts(ev) ==
    {i \in 2..Len(ev) : /\ ev[i][1] = "getline"
                        /\ ev[i - 1][1] = "prompt"
                        /\ ev[i - 1][2] = "input old password"}

\* line is the password of the request pending in st
Authenticates(st, import, line) ==
    /\ ReqKey(import) \in DOMAIN st
    /\ AuthKey(import) \in DOMAIN st
    /\ Len(line) >= PASSWORD_MIN
    /\ Len(line) <= PASSWORD_MAX
    /\ TagOf(st[ReqKey(import)], line) = st[AuthKey(import)]

\* the entries of a buffer of signature lists, as the format defines them: every
\* entry of every X.509 list and of every SHA-256 list of 32-byte hashes
RECURSIVE EslEntries(_, _)
EslEntries(buf, off) ==
    IF off + SizeofSigList > Len(buf) THEN << >>
    ELSE
    LET sls == Rd32(buf, off + OffSignatureListSize)
        hs == Rd32(buf, off + OffSignatureHeaderSize)
        ss == Rd32(buf, off + OffSignatureSize)
        first == off + SizeofSigList + hs
        cnt == (sls - SizeofSigList - hs) \div ss
        known == \/ GuidIs(buf, off, EfiCertX509Guid)
                 \/ GuidIs(buf, off, EfiHashSha256Guid) /\ ss = 48
    IN  IF sls < SizeofSigList \/ hs < 0 \/ ss < SizeofGuid \/ off + sls > Len(buf)
        THEN << >>
        ELSE (IF known
              THEN [k \in 1..cnt |->
                       SubSeq(buf, first + (k - 1) * ss + SizeofGuid + 1, first + k * ss)]
              ELSE << >>)
                 \o EslEntries(buf, off + sls)

Range(f) == {f[x] : x \in DOMAIN f}

\* cert is an entry of the named list of st
Appears(st, k, cert) == k \in DOMAIN st /\ cert \in Range(EslEntries(st[k], 0))

CountOf(seq, x) == Cardinality({i \in 1..Len(seq) : seq[i] = x})

\* the files of the last command that were found eligible, in order
Eligible == [i \in 1..Len(last.elig) |-> last.files[last.elig[i]]]

(***************************************************************************)
(* C1: when a request is pending with its tag and none of the three lines  *)
(* typed at the old-password prompt is its password, import and delete end *)
(* with every variable of the store as it was, attempt no store update,    *)
(* and no candidate is an entry of the pending list.                       *)
(***************************************************************************)
C1_Case ==
    /\ IsIssue
    /\ ReqKey(last.cmd = "import") \in DOMAIN last.pre
    /\ AuthKey(last.cmd = "import") \in DOMAIN last.pre
    /\ Cardinality(OldAttempts(last.ev)) = 3
    /\ \A i \in OldAttempts(last.ev) :
          ~Authenticates(last.pre, last.cmd = "import", last.ev[i][3])

C1_MergeAuthGate ==
    C1_Case =>
        /\ store = last.pre
        /\ Updates(last.ev) = {}
        /\ \A i \in 1..Len(last.files) :
              ~Appears(store, ReqKey(last.cmd = "import"), last.files[i])

C1_Witness ==
    /\ C1_Case
    /\ last.cmd = "import"
    /\ last.files = << KeyP >>
    /\ last.ret = -1

(***************************************************************************)
(* C2: a pending list (MokNew or MokDel) is changed or removed only by a   *)
(* command in which a line typed at the old-password prompt was the        *)
(* password of that list's stored tag.                                     *)
(***************************************************************************)
C2_NoUnauthenticatedTampering ==
    \A import \in BOOLEAN :
        (/\ last.cmd # "none"
         /\ ReqKey(import) \in DOMAIN last.pre
         /\ ~Same(store, last.pre, ReqKey(import)))
            => /\ IsIssue
               /\ (last.cmd = "import") = import
               /\ \E i \in OldAttempts(last.ev) :
                     Authenticates(last.pre, import, last.ev[i][3])

(***************************************************************************)
(* C3: from a store in which every pending list has its tag, no command    *)
(* ends with a pending list present and its tag absent, whichever store    *)
(* updates fail.                                                           *)
(***************************************************************************)
TagsPresent(st) ==
    \A import \in BOOLEAN : ReqKey(import) \in DOMAIN st => AuthKey(import) \in DOMAIN st

C3_TagNeverAbsent ==
    (last.cmd # "none" /\ TagsPresent(last.pre)) => TagsPresent(store)

(***************************************************************************)
(* C4: import and delete end with the pending list and its tag either both *)
(* as they were, or the merged list (the records of the eligible files,    *)
(* then the prior list) with the tag of the merged list and new password.  *)
(***************************************************************************)
Prior(import) ==
    IF ReqKey(import) \in DOMAIN last.pre THEN last.pre[ReqKey(import)] ELSE << >>

Merged(import) == ListOf(Eligible) \o Prior(import)

C4_AllOrNothing ==
    IsIssue =>
        LET import == last.cmd = "import"
        IN  \/ /\ Same(store, last.pre, ReqKey(import))
               /\ Same(store, last.pre, AuthKey(import))
            \/ /\ last.elig # << >>
               /\ ReqKey(import) \in DOMAIN store
               /\ AuthKey(import) \in DOMAIN store
               /\ store[ReqKey(import)] = Merged(import)
               /\ store[AuthKey(import)] = TagOf(Merged(import), last.password)

(***************************************************************************)
(* C5: when import, delete or reset returns 0 after writing, the stored    *)
(* tag is the tag of the pending list as now stored (of no bytes when it   *)
(* is absent) and the password just chosen; after reset MokNew is absent.  *)
(***************************************************************************)
Wrote == (IsIssue /\ last.elig # << >>) \/ last.cmd = "reset"

C5_TagBindsStoredList ==
    (Wrote /\ last.ret = 0) =>
        LET import == last.cmd # "delete"
            stored == IF ReqKey(import) \in DOMAIN store THEN store[ReqKey(import)]
                      ELSE << >>
        IN  /\ AuthKey(import) \in DOMAIN store
            /\ store[AuthKey(import)] = TagOf(stored, last.password)
            /\ IsIssue => stored = Merged(import)
            /\ last.cmd = "reset" => ReqKey(TRUE) \notin DOMAIN store

(***************************************************************************)
(* C6: an import of one readable key file right after an import of the     *)
(* same file that committed returns 0, skips the file, leaves MokNew and   *)
(* MokAuth (and every other variable) unchanged, and MokNew holds exactly  *)
(* one entry with that key.                                                *)
(***************************************************************************)
C6_DedupIdempotence ==
    last.repeat =>
        /\ last.ret = 0
        /\ last.elig = << >>
        /\ store = last.pre
        /\ Updates(last.ev) = {}
        /\ ReqKey(TRUE) \in DOMAIN store
        /\ CountOf(EslEntries(store[ReqKey(TRUE)], 0), prev) = 1

C6_Witness ==
    /\ last.repeat
    /\ last.files = << KeyP >>
    /\ Appears(store, ReqKey(TRUE), KeyP)

(***************************************************************************)
(* C7: is_valid_request in import mode returns false exactly when the      *)
(* candidate is an entry of PK, KEK, db, MokListRT or MokNew.              *)
(***************************************************************************)
EnrollLists ==
    { Key("PK", EFI_GLOBAL_VARIABLE), Key("KEK", EFI_GLOBAL_VARIABLE),
      Key("db", EFI_IMAGE_SECURITY_DATABASE_GUID),
      Key("MokListRT", SHIM_LOCK_GUID), Key("MokNew", SHIM_LOCK_GUID) }

C7_EnrollmentEligibility ==
    (q.op = "is_valid_request" /\ q.import) =>
        (q.result = FALSE <=> \E k \in EnrollLists : Appears(store, k, q.cert))

(***************************************************************************)
(* C8: is_valid_request in delete mode returns true exactly when the       *)
(* candidate is an entry of MokListRT and not an entry of MokDel.          *)
(***************************************************************************)
C8_DeletionEligibility ==
    (q.op = "is_valid_request" /\ ~q.import) =>
        (q.result <=> /\ Appears(store, Key("MokListRT", SHIM_LOCK_GUID), q.cert)
                      /\ ~Appears(store, Key("MokDel", SHIM_LOCK_GUID), q.cert))

(***************************************************************************)
(* C9: is_duplicate returns true exactly when the named list exists and    *)
(* some entry of one of its X.509 or SHA-256 signature lists has the       *)
(* candidate's length and bytes.                                           *)
(***************************************************************************)
C9_KeyStoreQuery ==
    q.op = "is_duplicate" => (q.result <=> Appears(store, q.key, q.cert))

(***************************************************************************)
(* C10: build_mok_list of the records the loop of issue_mok_request builds *)
(* for N files, all eligible, has exactly N nodes, node i of the size and  *)
(* the bytes of file i.                                                    *)
(***************************************************************************)
C10_Case ==
    /\ q.op = "roundtrip"
    /\ q.elig = [i \in 1..Len(q.files) |-> i]

C10_RoundTrip ==
    C10_Case =>
        /\ ~q.decoded.hang
        /\ Len(q.decoded.list) = Len(q.files)
        /\ \A i \in 1..Len(q.files) :
              /\ q.decoded.list[i].mok_size = Len(q.files[i])
              /\ RdBytes(q.buf, q.decoded.list[i].mok, q.decoded.list[i].mok_size)
                    = q.files[i]

C10_Witness ==
    /\ C10_Case
    /\ q.files = << KeyA, KeyP >>
    /\ Len(q.decoded.list) = 2

(***************************************************************************)
(* C11: build_mok_list of a strict prefix of an encoded buffer reads no    *)
(* byte at or beyond the prefix's length, ends, and returns only entries   *)
(* of the full buffer.                                                     *)
(***************************************************************************)
C11_TruncationSafety ==
    q.op = "prefix" =>
        /\ q.decoded.maxread <= q.k
        /\ ~q.decoded.hang
        /\ Range(q.decoded.list) \subseteq Range(q.full.list)

(***************************************************************************)
(* C12: generate_auth gives the same tag for (A, p) and (B, q) only if the *)
(* list bytes are the same (no list counting as no bytes) and the          *)
(* passwords are the same.                                                 *)
(***************************************************************************)
BytesOf(list) == IF list = NULL THEN << >> ELSE list

C12_TagBinding ==
    (q.op = "generate_auth" /\ q.authA = q.authB) =>
        /\ BytesOf(q.A) = BytesOf(q.B)
        /\ q.p = q.q

(***************************************************************************)
(* C13: verify_old_req asks for the old password at most 3 times, returns  *)
(* true at the first line whose tag is the stored tag and asks no more,    *)
(* and returns false, the process still running, exactly when 3 lines were *)
(* read and none matched; a line of invalid length counts as an attempt.   *)
(***************************************************************************)
C13_Case ==
    /\ IsIssue
    /\ last.verify # "none"
    /\ AuthKey(last.cmd = "import") \in DOMAIN last.pre

C13_OldPasswordChallenge ==
    C13_Case =>
        LET import == last.cmd = "import"
            tries == OldAttempts(last.ev)
            Match(i) == Authenticates(last.pre, import, last.ev[i][3])
        IN  /\ ~last.crashed
            /\ Cardinality(tries) <= 3
            /\ last.verify = "ok" <=> \E i \in tries : Match(i)
            /\ \A i \in tries : Match(i) => \A j \in tries : j <= i
            /\ last.verify = "fail" <=>
                  (Cardinality(tries) = 3 /\ \A i \in tries : ~Match(i))

(***************************************************************************)
(* C14: get_password succeeds only with a line of 8 to 16 characters that  *)
(* was then typed again identically; it reads at most 3 lines of invalid   *)
(* length, then at most 3 lines that do not match, fails as soon as either *)
(* count is 3, and prompts at most 6 times.                                *)
(***************************************************************************)
\* the lines typed at the prompts with message msg
Typed(ev, msg) ==
    {i \in 2..Len(ev) : /\ ev[i][1] = "getline"
                        /\ ev[i - 1][1] = "prompt"
                        /\ ev[i - 1][2] = msg}

ValidLength(line) == Len(line) >= PASSWORD_MIN /\ Len(line) <= PASSWORD_MAX

Aborted(ev) == \E i \in 1..Len(ev) : ev[i] = << "stderr", "Abort" >>

C14_Case == Typed(last.ev, "input password") # {}

C14_NewPasswordPrompt ==
    C14_Case =>
        LET first == Typed(last.ev, "input password")
            again == Typed(last.ev, "input password again")
            bad == {i \in first : ~ValidLength(last.ev[i][3])}
            chosen == {i \in first : ValidLength(last.ev[i][3])}
            differ == {j \in again : \A i \in chosen : last.ev[j][3] # last.ev[i][3]}
        IN  /\ Cardinality(first) <= 3
            /\ Cardinality(again) <= 3
            /\ Cardinality(first) + Cardinality(again) <= 6
            /\ Cardinality(chosen) <= 1
            /\ \A i \in chosen : \A j \in first : j <= i
            /\ \A j \in again \ differ : \A k \in again : k <= j
            /\ chosen = {} => again = {}
            /\ Aborted(last.ev) <=> (Cardinality(bad) = 3 \/ Cardinality(differ) = 3)
            /\ ~Aborted(last.ev) =>
                  /\ ValidLength(last.password)
                  /\ \E i \in chosen : last.ev[i][3] = last.password
                  /\ \E j \in again : last.ev[j][3] = last.password

C14_Witness ==
    /\ C14_Case
    /\ ~Aborted(last.ev)
    /\ Cardinality(Typed(last.ev, "input password")) = 2
    /\ last.password = Good1

(***************************************************************************)
(* C15: import, delete, reset and revoke return 0 exactly when nothing     *)
(* failed: no file operation, no old-password verification, no entry of    *)
(* the new password, no store write or delete of the command.              *)
(***************************************************************************)
FailedUpdates(ev) == {i \in Updates(ev) : ev[i][3] = FALSE}

Failure ==
    \/ last.io # NoIo
    \/ last.verify \in {"fail", "crash"}
    \/ Aborted(last.ev)
    \/ FailedUpdates(last.ev) # {}

C15_ExitStatus == last.cmd # "none" => (last.ret = 0 <=> ~Failure)

(***************************************************************************)
(* C16: when import or delete ends in failure, a diagnostic message has    *)
(* been written to stderr before it returns.                               *)
(***************************************************************************)
\* the messages on stderr that report a failure (the warning about a file that
\* is no certificate does not)
Diagnostics(ev) ==
    {i \in 1..Len(ev) : /\ ev[i][1] = "stderr"
                        /\ ev[i][2] # "Warning!!! not a valid x509 certificate"}

C16_NoSilentErrors ==
    (IsIssue /\ last.ret # 0) => Diagnostics(last.ev) # {}

(***************************************************************************)
(* C17: the bytes import and delete hand to update_request are one X.509   *)
(* record per eligible file, in the order of the files and with nothing of *)
(* a skipped file, then the bytes of the prior pending list as they were;  *)
(* a skipped file does not end the batch; a command that returns 0 has     *)
(* stored exactly these bytes.                                             *)
(***************************************************************************)
Skipped == {i \in 1..Len(last.ev) : last.ev[i][1] = "stdout" /\ last.ev[i][2] = "Skip"}

RECURSIVE RecordBytes(_)
RecordBytes(keys) ==
    IF keys = << >> THEN 0
    ELSE SizeofSigList + SizeofGuid + Len(Head(keys)) + RecordBytes(Tail(keys))

C17_Case == IsIssue /\ last.handed # NULL

C17_MergeLayout ==
    C17_Case =>
        LET import == last.cmd = "import"
            prior == Prior(import)
            newlen == Len(last.handed) - Len(prior)
            new == SubSeq(last.handed, 1, newlen)
        IN  /\ newlen = RecordBytes(Eligible)
            /\ EslEntries(new, 0) = Eligible
            /\ new = ListOf(Eligible)
            /\ SubSeq(last.handed, newlen + 1, Len(last.handed)) = prior
            /\ Len(last.elig) + Cardinality(Skipped) = Len(last.files)
            /\ last.ret = 0 => store[ReqKey(import)] = last.handed

C17_Witness ==
    /\ C17_Case
    /\ last.cmd = "import"
    /\ last.files = << KeyA, KeyP >>
    /\ last.elig = << 2 >>
    /\ Prior(TRUE) # << >>
    /\ last.ret = 0

(***************************************************************************)
(* C18: when no file of an import or delete batch is eligible, the command *)
(* returns 0, asks for no password, attempts no store update and leaves    *)
(* every variable as it was.                                               *)
(***************************************************************************)
\* cert may not be requested: for import it is an entry of a key list or of
\* MokNew, for delete it is no entry of MokListRT or it is one of MokDel
Ineligible(st, cert, import) ==
    IF import
    THEN \E k \in EnrollLists : Appears(st, k, cert)
    ELSE \/ ~Appears(st, Key("MokListRT", SHIM_LOCK_GUID), cert)
         \/ Appears(st, Key("MokDel", SHIM_LOCK_GUID), cert)

Prompts(ev) == {i \in 1..Len(ev) : ev[i][1] = "prompt"}

C18_Case ==
    /\ IsIssue
    /\ last.io = NoIo
    /\ \A i \in 1..Len(last.files) :
          Ineligible(last.pre, last.files[i], last.cmd = "import")

C18_ZeroEligible ==
    C18_Case =>
        /\ last.ret = 0
        /\ Prompts(last.ev) = {}
        /\ Updates(last.ev) = {}
        /\ store = last.pre

C18_Witness ==
    /\ C18_Case
    /\ last.cmd = "delete"
    /\ last.files = << KeyP, KeyP >>
    /\ Cardinality(Skipped) = 2

(***************************************************************************)
(* C19: in import and delete the files are judged first, then the old      *)
(* password is asked (only when a request is pending), then the new        *)
(* password and its confirmation, then the list is written, then the tag;  *)
(* nothing is written before the pending request is authenticated and the  *)
(* new password confirmed, and no tag is written after a failed list       *)
(* write.                                                                  *)
(***************************************************************************)
Judged(ev) ==
    {i \in 1..Len(ev) :
        \/ ev[i][1] = "stdout" /\ ev[i][2] = "Skip"
        \/ ev[i][1] = "stderr" /\ ev[i][2] = "Warning!!! not a valid x509 certificate"}

OldPrompts(ev) ==
    {i \in 1..Len(ev) : ev[i][1] = "prompt" /\ ev[i][2] = "input old password"}

NewPrompts(ev) ==
    {i \in 1..Len(ev) : /\ ev[i][1] = "prompt"
                        /\ ev[i][2] \in {"input password", "input password again"}}

Edits(ev, name) == {i \in 1..Len(ev) : ev[i][1] = "edit" /\ ev[i][2] = name}

Deletes(ev, name) == {i \in 1..Len(ev) : ev[i][1] = "delete" /\ ev[i][2] = name}

Before(S, T) == \A i \in S, j \in T : i < j

C19_PhaseOrdering ==
    IsIssue =>
        LET import == last.cmd = "import"
            ev == last.ev
            pending == ReqKey(import) \in DOMAIN last.pre
            list == Edits(ev, ReqName(import))
            tag == Edits(ev, AuthName(import))
            undo == Deletes(ev, ReqName(import))
        IN  /\ Before(Judged(ev), OldPrompts(ev) \cup NewPrompts(ev) \cup Updates(ev))
            /\ Before(OldPrompts(ev), NewPrompts(ev) \cup Updates(ev))
            /\ Before(NewPrompts(ev), Updates(ev))
            /\ Before(list, tag) /\ Before(tag, undo)
            /\ Updates(ev) = list \cup tag \cup undo
            /\ Cardinality(list) <= 1 /\ Cardinality(tag) <= 1 /\ Cardinality(undo) <= 1
            /\ OldPrompts(ev) # {} => pending
            /\ Updates(ev) # {} =>
                  /\ pending => \E i \in OldAttempts(ev) :
                                   Authenticates(last.pre, import, ev[i][3])
                  /\ ~Aborted(ev)
                  /\ \E j \in Typed(ev, "input password again") :
                        ev[j][3] = last.password
            /\ tag # {} => \E i \in list : ev[i][3] = TRUE
            /\ undo # {} => \E i \in tag : ev[i][3] = FALSE

C19_Witness ==
    /\ IsIssue
    /\ last.files = << KeyA, KeyP >>
    /\ last.cmd = "import"
    /\ OldPrompts(last.ev) # {}
    /\ Cardinality(Skipped) = 1
    /\ Cardinality(Updates(last.ev)) = 2
    /\ last.ret = 0

(***************************************************************************)
(* C20: an import writes or deletes no variable but MokNew and MokAuth, a  *)
(* delete none but MokDel and MokDelAuth; no command writes or deletes PK, *)
(* KEK, db or MokListRT; the pending list of the other mode and its tag    *)
(* stay as they were.                                                      *)
(***************************************************************************)
KeyLists == {"PK", "KEK", "db", "MokListRT"}

Own(cmd) ==
    IF cmd = "import" THEN {"MokNew", "MokAuth"}
    ELSE IF cmd = "delete" THEN {"MokDel", "MokDelAuth"}
    ELSE {"MokNew", "MokAuth", "MokDel", "MokDelAuth"}

Other(cmd) == IF cmd = "import" THEN {"MokDel", "MokDelAuth"} ELSE {"MokNew", "MokAuth"}

Touched(ev) == {ev[i][2] : i \in Updates(ev)}

C20_Frame ==
    last.cmd # "none" =>
        /\ Touched(last.ev) \subseteq Own(last.cmd)
        /\ Touched(last.ev) \cap KeyLists = {}
        /\ \A k \in DOMAIN last.pre \cup DOMAIN store :
              k[1] \notin Own(last.cmd) => Same(last.pre, store, k)
        /\ \A k \in DOMAIN last.pre \cup DOMAIN store :
              k[1] \in Own(last.cmd) /\ ~Same(last.pre, store, k) => k[2] = SHIM_LOCK_GUID
        /\ IsIssue => \A name \in Other(last.cmd) :
                         Same(last.pre, store, Key(name, SHIM_LOCK_GUID))

C20_Witness ==
    /\ last.cmd = "delete"
    /\ last.ret = 0
    /\ Touched(last.ev) = {"MokDel", "MokDelAuth"}
    /\ Key("MokNew", SHIM_LOCK_GUID) \in DOMAIN last.pre
    /\ Key("MokAuth", SHIM_LOCK_GUID) \in DOMAIN last.pre
    /\ ~Same(last.pre, store, Key("MokDel", SHIM_LOCK_GUID))

(***************************************************************************)
(* C21: every named list is read under one namespace at every call site:   *)
(* for every store and key file that is read whole, test_key says "already *)
(* enrolled" exactly when is_valid_request in import mode refuses the key. *)
(***************************************************************************)
C21_OneNamespacePerList ==
    (q.op = "test_key" /\ q.io = "none") => (q.result.ret = 1 <=> ~q.valid)

(***************************************************************************)
(* C22: starting without MokNew, no sequence of imports, a batch naming    *)
(* one blob twice included, leaves two entries of the same payload in the  *)
(* pending-addition list.  Stated as the step that gives it by induction:  *)
(* an import that finds MokNew absent or free of repeated payloads leaves  *)
(* it absent or free of repeated payloads.                                 *)
(***************************************************************************)
NoRepeat(seq) == \A i \in 1..Len(seq), j \in 1..Len(seq) : seq[i] = seq[j] => i = j

NoDuplicateIn(st) ==
    ReqKey(TRUE) \in DOMAIN st => NoRepeat(EslEntries(st[ReqKey(TRUE)], 0))

C22_NoDuplicateEnrollment ==
    (last.cmd = "import" /\ NoDuplicateIn(last.pre)) => NoDuplicateIn(store)

(***************************************************************************)
(* C23: build_mok_list terminates on every buffer, one whose record        *)
(* declares a SignatureListSize of 0 or of less than the fixed header      *)
(* included.                                                               *)
(***************************************************************************)
C23_DecodeTermination == q.op = "decode" => ~q.decoded.hang

====
